---- MODULE Spec2Model ----
(***************************************************************************)
(* Forecast utility functions of Utility_functions.py as a state machine.  *)
(* The library is stateless: a caller, idle at first, calls one function   *)
(* with some inputs, holds what the function returned (or raised), and     *)
(* drops it again.  Every function is an operator computed as the code     *)
(* computes it, on 0-based positions turned into TLA+'s 1-based sequences. *)
(*                                                                         *)
(* Observations are float64 (the data model's real-valued series): a cell  *)
(* is either a number or NaN.  scipy.ndimage's shift by a whole number of  *)
(* positions is modelled by the values it moves, not by the round-off of   *)
(* its spline prefilter.  Means, quantiles and roundings are computed on   *)
(* exact rationals <<numerator, denominator>>; square roots (rmse, the     *)
(* norms of energy_score) are left unevaluated.                            *)
(***************************************************************************)
EXTENDS Integers, Sequences, FiniteSets, TLC

VARIABLES pc, fn, args, ret

vars == <<pc, fn, args, ret>>

\* ------------------------------------------------------------------ bounds

MaxLen == 3
MaxVal == 2
MaxRamp == 7
MaxLook == 3
MaxSeq == 3
MaxSplit == 7
MaxNegSplit == 3
MaxOpLag == 1
MaxD == 4
MaxDim == 2
MaxTarget == 6
MaxScen == 2
MaxStep == 3
MaxObs == 2
MaxPit == 1
MaxData == 3

\* ----------------------------------------------------------------- helpers

Min(a, b) == IF a < b THEN a ELSE b

Max(a, b) == IF a > b THEN a ELSE b

\* np.NaN, the cell pandas' and scipy's shifts fill in.
NaN == -1

\* [1, 2, ..., n]
Ramp(n) == [i \in 1..n |-> i]

\* A Python slice bound k on a sequence of n items, as a count of items.
PyBound(k, n) == IF k < 0 THEN Max(k + n, 0) ELSE Min(k, n)

\* s[start:]
SliceFrom(s, start) == SubSeq(s, PyBound(start, Len(s)) + 1, Len(s))

\* s[:stop]
SliceTo(s, stop) == SubSeq(s, 1, PyBound(stop, Len(s)))

\* s[start:stop]
Slice(s, start, stop) ==
    SubSeq(s, PyBound(start, Len(s)) + 1, PyBound(stop, Len(s)))

\* np.isnan(row).any()
AnyNaN(row) == \E c \in 1..Len(row) : row[c] = NaN

\* M[~np.isnan(M).any(axis=1)]
DropNaNRows(M) == SelectSeq(M, LAMBDA row : ~AnyNaN(row))

\* np.asarray(columns).T, every column n cells long
Transpose(columns, n) ==
    [i \in 1..n |-> [c \in 1..Len(columns) |-> columns[c][i]]]

\* pandas Series.shift(k): cell i receives cell i - k, NaN where there is none.
PdShift(s, k) ==
    [i \in 1..Len(s) |->
        IF i - k >= 1 /\ i - k <= Len(s) THEN s[i - k] ELSE NaN]

\* scipy.ndimage shift(s, k, cval=NaN), order 3: the spline prefilter is a
\* recursive filter over the whole line, so one NaN in s makes every cell NaN;
\* otherwise cell i receives cell i - k and cval where there is none.
NdShift(s, k) ==
    IF AnyNaN(s) THEN [i \in 1..Len(s) |-> NaN] ELSE PdShift(s, k)

\* ------------------------------------------------------- create_supervised

\* back: the look_back + 1 shifted copies (lines 83-89)
Back(data, kind, look_back) ==
    [c \in 1..(look_back + 1) |->
        IF kind = "Series" THEN PdShift(data, c - 1) ELSE NdShift(data, c - 1)]

\* X after line 91
LagRows(data, kind, look_back) ==
    DropNaNRows(Transpose(Back(data, kind, look_back), Len(data)))

\* X[:,0]
FirstColumn(X) == [i \in 1..Len(X) |-> X[i][1]]

\* forward: the n_seq + 1 shifted copies of X[:,0] (lines 93-94)
Forward(X, n_seq) == [c \in 1..(n_seq + 1) |-> NdShift(FirstColumn(X), 0 - (c - 1))]

\* Mutant: the shift-0 column is kept and the last lead column lost.
LeadColumns_KeepCurrent(X, n_seq) ==
    [i \in 1..Len(X) |-> [c \in 1..n_seq |-> Forward(X, n_seq)[c][i]]]

\* np.asarray(forward).T[:,1:] (line 95)
LeadColumns(X, n_seq) ==
    [i \in 1..Len(X) |-> [c \in 1..n_seq |-> Forward(X, n_seq)[c + 1][i]]]

\* Y after line 96
AlignedY(data, kind, look_back, n_seq) ==
    DropNaNRows(LeadColumns(LagRows(data, kind, look_back), n_seq))

\* Mutant: the lag matrix is not cut to the lead matrix's length.
AlignedX_NoTruncate(data, kind, look_back, n_seq) ==
    LagRows(data, kind, look_back)

\* X after line 97
AlignedX(data, kind, look_back, n_seq) ==
    SliceTo(LagRows(data, kind, look_back),
            Len(AlignedY(data, kind, look_back, n_seq)))

\* Mutant: the overlapping test set starts one row late.
TestStart_OneLate(look_back, train_split, overlap) ==
    IF overlap THEN train_split - look_back ELSE train_split

\* where the test set starts (lines 100-105)
TestStart(look_back, train_split, overlap) ==
    IF overlap THEN train_split - look_back - 1 ELSE train_split

\* Mutant: the training set stops one row before train_split.
create_supervised_ShortTrain(data, kind, look_back, n_seq, train_split, overlap) ==
    LET X == AlignedX(data, kind, look_back, n_seq)
        Y == AlignedY(data, kind, look_back, n_seq)
        start == TestStart(look_back, train_split, overlap)
    IN  [trainX |-> SliceTo(X, Max(train_split - 1, 0)),
         trainY |-> SliceTo(Y, Max(train_split - 1, 0)),
         testX |-> SliceFrom(X, start),
         testY |-> SliceFrom(Y, start)]

create_supervised(data, kind, look_back, n_seq, train_split, overlap) ==
    LET X == AlignedX(data, kind, look_back, n_seq)
        Y == AlignedY(data, kind, look_back, n_seq)
        start == TestStart(look_back, train_split, overlap)
    IN  [trainX |-> SliceTo(X, train_split),
         trainY |-> SliceTo(Y, train_split),
         testX |-> SliceFrom(X, start),
         testY |-> SliceFrom(Y, start)]

\* ---------------------------------------------------------- supervised_set

DigitChars == <<"0", "1", "2", "3", "4", "5", "6", "7", "8", "9">>

\* str(n) of an integer
RECURSIVE Str(_)
Str(n) ==
    IF n < 0 THEN "-" \o Str(0 - n)
    ELSE IF n < 10 THEN DigitChars[n + 1]
    ELSE Str(n \div 10) \o DigitChars[(n % 10) + 1]

\* A pandas DataFrame: column names, row labels, rows of cells.
Frame(columns, index, rows) ==
    [columns |-> columns, index |-> index, rows |-> rows]

\* df[var_name].copy().to_frame() with the shifted columns assigned to it
\* (lines 117-124): column c is the target shifted by sign * (c - 1); the
\* assignment aligns on the row label, so the rows dropna() removed hold NaN.
ShiftedFrame(col, var_name, tag, sign, n) ==
    Frame([c \in 1..(n + 1) |->
              IF c = 1 THEN var_name ELSE var_name \o tag \o Str(c - 1)],
          [i \in 1..Len(col) |-> i - 1],
          Transpose([c \in 1..(n + 1) |-> PdShift(col, sign * (c - 1))],
                    Len(col)))

\* frame[start:stop], a slice of rows by position
RowSlice(frame, start, stop) ==
    Frame(frame.columns,
          Slice(frame.index, start, stop),
          Slice(frame.rows, start, stop))

\* The positions of the columns that stay when `name` is dropped.
KeptColumns(frame, name) ==
    SelectSeq([c \in 1..Len(frame.columns) |-> c],
              LAMBDA c : frame.columns[c] # name)

\* frame.drop(name, axis = 1)
DropColumn(frame, name) ==
    LET kept == KeptColumns(frame, name)
    IN  Frame([c \in 1..Len(kept) |-> frame.columns[kept[c]]],
              frame.index,
              [i \in 1..Len(frame.rows) |->
                  [c \in 1..Len(kept) |-> frame.rows[i][kept[c]]]])

\* frame.iloc[:, start:]
ColumnsFrom(frame, start) ==
    Frame(SliceFrom(frame.columns, start),
          frame.index,
          [i \in 1..Len(frame.rows) |-> SliceFrom(frame.rows[i], start)])

\* The stop of the row slice [lag:-lead] (lines 126-127): Python's -0 is 0.
TrimStop(lead) == 0 - lead

supervised_set(col, var_name, lag, lead, operational_lag) ==
    LET lag_all == ShiftedFrame(col, var_name, "_lag_", 1, lag)
        lead_all == ShiftedFrame(col, var_name, "_lead_", 0 - 1, lead)
        lag_pred == RowSlice(lag_all, lag, TrimStop(lead))
        lead_pred == DropColumn(RowSlice(lead_all, lag, TrimStop(lead)), var_name)
    IN  [lag_pred |-> IF operational_lag > 0
                      THEN ColumnsFrom(lag_pred, operational_lag)
                      ELSE lag_pred,
         lead_pred |-> lead_pred]

\* ---------------------------------------------------- lagged_predictors_pd

Abs(x) == IF x < 0 THEN 0 - x ELSE x

\* np.argwhere(abs(PACF) > thres): the 0-based positions, ascending
ArgWhere(PACF, thres) ==
    SelectSeq([k \in 1..Len(PACF) |-> k - 1],
              LAMBDA k : Abs(PACF[k + 1]) > thres)

\* int(freq*24) for a positive freq = num/den
IntFreq24(freq) == (24 * freq[1]) \div freq[2]

\* starting_point (lines 150-153)
StartingPoint(freq, operational_lag, da_auction) ==
    IF da_auction THEN (IntFreq24(freq) - 1) + operational_lag
    ELSE operational_lag

\* Lags (lines 148-155)
SelectedLags(PACF, thres, starting_point) ==
    SelectSeq([j \in 1..Len(ArgWhere(PACF, thres)) |->
                  ArgWhere(PACF, thres)[j] - 1],
              LAMBDA lag : lag > starting_point)

lagged_predictors_pd(col, col_name, PACF, freq, operational_lag, thres, da_auction) ==
    LET Lags == SelectedLags(PACF, thres,
                             StartingPoint(freq, operational_lag, da_auction))
        name_list == [j \in 1..Len(Lags) |-> (col_name \o "_") \o Str(Lags[j])]
    IN  [new_columns |->
            [j \in 1..Len(Lags) |->
                [name |-> name_list[j], values |-> PdShift(col, Lags[j])]],
         name_list |-> name_list]

\* ------------------------------------------------------- exact arithmetic

RECURSIVE Gcd(_, _)
Gcd(a, b) == IF b = 0 THEN a ELSE Gcd(b, a % b)

\* The real number n/d (d # 0) in lowest terms, as <<numerator, denominator>>
Rat(n, d) ==
    LET sn == IF d < 0 THEN 0 - n ELSE n
        sd == Abs(d)
        g == Gcd(Abs(sn), sd)
    IN  <<sn \div g, sd \div g>>

RatAdd(x, y) == Rat(x[1] * y[2] + y[1] * x[2], x[2] * y[2])

RatSub(x, y) == Rat(x[1] * y[2] - y[1] * x[2], x[2] * y[2])

RatMul(x, y) == Rat(x[1] * y[1], x[2] * y[2])

RatLE(x, y) == x[1] * y[2] <= y[1] * x[2]

RatLT(x, y) == x[1] * y[2] < y[1] * x[2]

RECURSIVE RatSum(_)
RatSum(xs) ==
    IF xs = <<>> THEN Rat(0, 1) ELSE RatAdd(xs[1], RatSum(Tail(xs)))

\* np.mean of a non-empty sequence of reals
RatMean(xs) == RatMul(RatSum(xs), Rat(1, Len(xs)))

RECURSIVE Pow10(_)
Pow10(k) == IF k = 0 THEN 1 ELSE 10 * Pow10(k - 1)

\* np.rint of the real n/d (d > 0): the nearest integer, a tie to the even one
Rint(x) ==
    LET f == x[1] \div x[2]
        r == x[1] - f * x[2]
    IN  IF 2 * r < x[2] THEN f
        ELSE IF 2 * r > x[2] THEN f + 1
        ELSE IF f % 2 = 0 THEN f ELSE f + 1

\* round(x, digits) of a numpy float: rint(x * 10^digits) / 10^digits
Round(x, digits) ==
    Rat(Rint(RatMul(x, Rat(Pow10(digits), 1))), Pow10(digits))

\* digits: <<>> for None, <<d>> for d decimals
Rounded(x, digits) == IF digits = <<>> THEN x ELSE Round(x, digits[1])

\* ------------------------------------------ eval_point_pred, brier_score

\* A numpy array: its shape and its cells in row-major order.
Size(shape) == IF Len(shape) = 1 THEN shape[1] ELSE shape[1] * shape[2]

\* The shape padded with leading 1s to n dimensions (numpy broadcasting).
PadShape(shape, n) ==
    [i \in 1..n |->
        IF i <= n - Len(shape) THEN 1 ELSE shape[i - (n - Len(shape))]]

Broadcastable(s1, s2) ==
    LET n == Max(Len(s1), Len(s2))
    IN  \A i \in 1..n :
            \/ PadShape(s1, n)[i] = PadShape(s2, n)[i]
            \/ PadShape(s1, n)[i] = 1
            \/ PadShape(s2, n)[i] = 1

BroadcastShape(s1, s2) ==
    LET n == Max(Len(s1), Len(s2))
    IN  [i \in 1..n |-> Max(PadShape(s1, n)[i], PadShape(s2, n)[i])]

\* The index tuples of a shape, in row-major order.
IndexSeq(shape) ==
    IF Len(shape) = 1 THEN [k \in 1..shape[1] |-> <<k>>]
    ELSE [k \in 1..(shape[1] * shape[2]) |->
             <<((k - 1) \div shape[2]) + 1, ((k - 1) % shape[2]) + 1>>]

\* The cell of arr that the broadcast index idx reads.
CellAt(arr, idx) ==
    LET off == Len(idx) - Len(arr.shape)
        own == [j \in 1..Len(arr.shape) |->
                   IF arr.shape[j] = 1 THEN 1 ELSE idx[j + off]]
    IN  IF Len(own) = 1 THEN arr.flat[own[1]]
        ELSE arr.flat[(own[1] - 1) * arr.shape[2] + own[2]]

\* predictions - actual, cell by cell over the broadcast shape
Difference(predictions, actual) ==
    LET idx == IndexSeq(BroadcastShape(predictions.shape, actual.shape))
    IN  [k \in 1..Len(idx) |->
            CellAt(predictions, idx[k]) - CellAt(actual, idx[k])]

\* brier_score: no check of the shapes; the subtraction broadcasts, or raises
\* ValueError where the shapes cannot be broadcast.
brier_score(predictions, actual, digits) ==
    IF ~Broadcastable(predictions.shape, actual.shape)
    THEN [kind |-> "ValueError", message |-> "operands could not be broadcast"]
    ELSE LET diff == Difference(predictions, actual)
         IN  [kind |-> "return",
              value |-> Rounded(RatMean([k \in 1..Len(diff) |->
                                            Rat(diff[k] * diff[k], 1)]),
                                digits)]

\* eval_point_pred with digits = None; rmse is the square root of mse.
eval_point_pred(predictions, actual) ==
    IF predictions.shape # actual.shape
    THEN [kind |-> "AssertionError", message |-> "Shape missmatch"]
    ELSE LET diff == Difference(predictions, actual)
             n == Len(diff)
         IN  [kind |-> "return",
              mape |-> RatMean([k \in 1..n |->
                                   Rat(Abs(diff[k]), Abs(actual.flat[k]))]),
              mse |-> RatMean([k \in 1..n |-> Rat(diff[k] * diff[k], 1)]),
              mae |-> RatMean([k \in 1..n |-> Rat(Abs(diff[k]), 1)])]

\* ------------------------------------------------------------ energy_score

\* range(start, stop, step) for step > 0
RECURSIVE PyRange(_, _, _)
PyRange(start, stop, step) ==
    IF start >= stop THEN <<>>
    ELSE <<start>> \o PyRange(start + step, stop, step)

\* The i the loop of line 278 visits.
BlockEnds(n_target, step) == PyRange(step, n_target, step)

\* ES holds one score per visited i, computed from the rows [i-step, i) of
\* target and pred_scenarios alone (Euclidean norms, not modelled): the model
\* keeps these row ranges; the mean of no score is NaN.
energy_score(n_target, n_scen, step) ==
    LET ends == BlockEnds(n_target, step)
    IN  [ES |-> [j \in 1..Len(ends) |-> <<ends[j] - step, ends[j]>>],
         value |-> IF ends = <<>> THEN "nan" ELSE "mean(ES)"]

\* ---------------------------------------------------------------- pit_eval

\* The fallback 1 of line 216, in hundredths like the quantile levels.
PitFallback == 100

\* np.where(row >= t)[0]: the 0-based columns, ascending
WhereReached(row, t) ==
    SelectSeq([j \in 1..Len(row) |-> j - 1], LAMBDA j : row[j + 1] >= t)

\* Mutant: the level of the last column that reaches the target.
pit_eval_LastReached(target, quant_pred, quantiles) ==
    [i \in 1..Len(target) |->
        IF \E j \in 1..Len(quant_pred[i]) : quant_pred[i][j] >= target[i]
        THEN LET w == WhereReached(quant_pred[i], target[i])
             IN  quantiles[w[Len(w)] + 1]
        ELSE PitFallback]

pit_eval(target, quant_pred, quantiles) ==
    [i \in 1..Len(target) |->
        IF \E j \in 1..Len(quant_pred[i]) : quant_pred[i][j] >= target[i]
        THEN quantiles[WhereReached(quant_pred[i], target[i])[1] + 1]
        ELSE PitFallback]

\* --------------------------------------------------------------- VaR, CVaR

\* The number of cells of data below x, and at or below x
CountLT(data, x) == Cardinality({i \in 1..Len(data) : RatLT(data[i], x)})

CountLE(data, x) == Cardinality({i \in 1..Len(data) : RatLE(data[i], x)})

\* The k-th smallest cell of data, k from 0 (np.quantile partitions the data)
KthSmallest(data, k) ==
    CHOOSE x \in {data[i] : i \in 1..Len(data)} :
        CountLT(data, x) <= k /\ k < CountLE(data, x)

\* np.quantile(data, q), the default linear interpolation, q = <<num, den>>:
\* the virtual position (n-1)*q between two order statistics.
Quantile(data, q) ==
    LET h == RatMul(Rat(Len(data) - 1, 1), q)
        lo == h[1] \div h[2]
        hi == Min(lo + 1, Len(data) - 1)
        g == RatSub(h, Rat(lo, 1))
        a == KthSmallest(data, lo)
        b == KthSmallest(data, hi)
    IN  RatAdd(a, RatMul(RatSub(b, a), g))

\* The default of digits (lines 299 and 306)
DefaultDigits == 3

\* NaN as a result: 0/0
RatNaN == <<0, 0>>

VaR(data, quant, digits) == Rounded(Quantile(data, quant), digits)

\* Mutant: the tail excludes the values equal to the threshold.
Tail_Strict(data, threshold) ==
    SelectSeq(data, LAMBDA x : RatLT(x, threshold))

\* data[data<=VaR]
TailAtOrBelow(data, threshold) ==
    SelectSeq(data, LAMBDA x : RatLE(x, threshold))

\* The mean of an empty tail is NaN.
CVaR(data, quant, digits) ==
    LET tail == TailAtOrBelow(data, Quantile(data, quant))
    IN  IF tail = <<>> THEN RatNaN ELSE Rounded(RatMean(tail), digits)

\* ------------------------------------------------------------ the caller

Cell == {NaN} \cup (1..MaxVal)

SeriesSet ==
    UNION {[1..n -> Cell] : n \in 0..MaxLen} \cup {Ramp(n) : n \in 1..MaxRamp}

\* What pacf(df[col_name], nlags = MaxD) can return, in hundredths: 1.0 at
\* lag 0, then one partial autocorrelation per lag.
PacfSet == {<<100>> \o tail : tail \in [1..MaxD -> {0 - 9, 0, 9}]}

\* thres in hundredths: the default .05, and the value of a PACF entry
ThresSet == {5, 9}

\* freq as <<numerator, denominator>>: the three find_freq returns (1, 4,
\* 1/4) and two coarser ones whose day fits the PACF vector.
FreqSet == {<<1, 1>>, <<4, 1>>, <<1, 4>>, <<1, 8>>, <<1, 16>>}

\* The shapes of 1-D and 2-D arrays with at most MaxDim cells a side
Shapes ==
    {<<n>> : n \in 1..MaxDim} \cup {<<r, c>> : r, c \in 1..MaxDim}

\* Per shape: an array of ones, of twos, and of 1, 2, 3, ...
ArraySet ==
    UNION {{[shape |-> sh, flat |-> [k \in 1..Size(sh) |-> 1]],
            [shape |-> sh, flat |-> [k \in 1..Size(sh) |-> 2]],
            [shape |-> sh, flat |-> Ramp(Size(sh))]} : sh \in Shapes}

\* Quantile levels in hundredths, strictly increasing
QuantileSeqs == {<<50>>, <<10, 90>>, <<10, 50, 90>>}

\* Sample values, in ten-thousandths
DataVals == {Rat(k, 10000) : k \in {0 - 15, 0, 4, 5, 16, 25}}

\* quant: the default .05, .5 and 1.0
QuantSet == {Rat(1, 20), Rat(1, 2), Rat(1, 1)}

DigitsSet == {<<>>, <<DefaultDigits>>}

Init ==
    /\ pc = "idle"
    /\ fn = "none"
    /\ args = <<>>
    /\ ret = <<>>

Call_create_supervised ==
    /\ pc = "idle"
    /\ \E data \in SeriesSet, kind \in {"Series", "ndarray"},
          look_back \in 0..MaxLook, n_seq \in 0..MaxSeq,
          train_split \in (0 - MaxNegSplit)..MaxSplit, overlap \in BOOLEAN :
          /\ args' = [data |-> data, kind |-> kind, look_back |-> look_back,
                      n_seq |-> n_seq, train_split |-> train_split,
                      overlap |-> overlap]
          /\ ret' = create_supervised(data, kind, look_back, n_seq,
                                      train_split, overlap)
    /\ fn' = "create_supervised"
    /\ pc' = "returned"

Call_supervised_set ==
    /\ pc = "idle"
    /\ \E col \in SeriesSet, lag \in 0..MaxLook, lead \in 0..MaxSeq,
          operational_lag \in 0..MaxOpLag :
          /\ args' = [col |-> col, var_name |-> "load", lag |-> lag,
                      lead |-> lead, operational_lag |-> operational_lag]
          /\ ret' = supervised_set(col, "load", lag, lead, operational_lag)
    /\ fn' = "supervised_set"
    /\ pc' = "returned"

Call_lagged_predictors_pd ==
    /\ pc = "idle"
    /\ \E PACF \in PacfSet, freq \in FreqSet, operational_lag \in 0..MaxOpLag,
          thres \in ThresSet, da_auction \in BOOLEAN :
          /\ args' = [col |-> Ramp(MaxRamp), col_name |-> "load",
                      PACF |-> PACF, freq |-> freq,
                      operational_lag |-> operational_lag, thres |-> thres,
                      da_auction |-> da_auction]
          /\ ret' = lagged_predictors_pd(Ramp(MaxRamp), "load", PACF, freq,
                                         operational_lag, thres, da_auction)
    /\ fn' = "lagged_predictors_pd"
    /\ pc' = "returned"

Call_eval_point_pred ==
    /\ pc = "idle"
    /\ \E predictions \in ArraySet, actual \in ArraySet :
          /\ args' = [predictions |-> predictions, actual |-> actual]
          /\ ret' = eval_point_pred(predictions, actual)
    /\ fn' = "eval_point_pred"
    /\ pc' = "returned"

Call_brier_score ==
    /\ pc = "idle"
    /\ \E predictions \in ArraySet, actual \in ArraySet, digits \in DigitsSet :
          /\ args' = [predictions |-> predictions, actual |-> actual,
                      digits |-> digits]
          /\ ret' = brier_score(predictions, actual, digits)
    /\ fn' = "brier_score"
    /\ pc' = "returned"

Call_energy_score ==
    /\ pc = "idle"
    /\ \E n_target \in 0..MaxTarget, n_scen \in 1..MaxScen, step \in 1..MaxStep :
          /\ args' = [n_target |-> n_target, n_scen |-> n_scen, step |-> step]
          /\ ret' = energy_score(n_target, n_scen, step)
    /\ fn' = "energy_score"
    /\ pc' = "returned"

Call_pit_eval ==
    /\ pc = "idle"
    /\ \E quantiles \in QuantileSeqs, n \in 0..MaxObs :
          \E target \in [1..n -> 0..MaxPit],
             quant_pred \in [1..n -> [1..Len(quantiles) -> 0..MaxPit]] :
             /\ args' = [target |-> target, quant_pred |-> quant_pred,
                         quantiles |-> quantiles]
             /\ ret' = pit_eval(target, quant_pred, quantiles)
    /\ fn' = "pit_eval"
    /\ pc' = "returned"

Call_VaR ==
    /\ pc = "idle"
    /\ \E n \in 1..MaxData :
          \E data \in [1..n -> DataVals], quant \in QuantSet, digits \in DigitsSet :
             /\ args' = [data |-> data, quant |-> quant, digits |-> digits]
             /\ ret' = VaR(data, quant, digits)
    /\ fn' = "VaR"
    /\ pc' = "returned"

Call_CVaR ==
    /\ pc = "idle"
    /\ \E n \in 1..MaxData :
          \E data \in [1..n -> DataVals], quant \in QuantSet, digits \in DigitsSet :
             /\ args' = [data |-> data, quant |-> quant, digits |-> digits]
             /\ ret' = CVaR(data, quant, digits)
    /\ fn' = "CVaR"
    /\ pc' = "returned"

\* The caller is done with the result.
Drop ==
    /\ pc = "returned"
    /\ pc' = "idle"
    /\ fn' = "none"
    /\ args' = <<>>
    /\ ret' = <<>>

\* A caller of the Supervised-Set Builder
NextBuilder ==
    \/ Call_create_supervised
    \/ Call_supervised_set
    \/ Call_lagged_predictors_pd
    \/ Drop

\* A caller of the Forecast Evaluator
NextEvaluator ==
    \/ Call_eval_point_pred
    \/ Call_brier_score
    \/ Call_energy_score
    \/ Call_pit_eval
    \/ Drop

\* A caller of the risk statistics
NextRisk ==
    \/ Call_VaR
    \/ Call_CVaR
    \/ Drop

Spec == Init /\ [][NextBuilder]_vars

SpecEvaluator == Init /\ [][NextEvaluator]_vars

SpecRisk == Init /\ [][NextRisk]_vars

\* ------------------------------------------------------------------ claims

NoNaNRows(M) == \A i \in 1..Len(M) : ~AnyNaN(M[i])

\* The last n rows of M
LastRows(M, n) == SubSeq(M, Len(M) - n + 1, Len(M))

\* The first n rows of M
FirstRows(M, n) == SubSeq(M, 1, n)

Called(f) == pc = "returned" /\ fn = f

\* C1: whatever the series (gaps included), look_back, horizon, split point
\* and overlap flag, create_supervised returns as many trainX rows as trainY
\* rows, as many testX rows as testY rows, and no row of the four holds NaN.
C1_PairedRowsNoNaN ==
    Called("create_supervised") =>
        /\ Len(ret.trainX) = Len(ret.trainY)
        /\ Len(ret.testX) = Len(ret.testY)
        /\ NoNaNRows(ret.trainX) /\ NoNaNRows(ret.trainY)
        /\ NoNaNRows(ret.testX) /\ NoNaNRows(ret.testY)

\* C1's case: a series with a gap and a horizon that costs lead rows, with
\* rows left on both sides of the split.
C1_Witness ==
    /\ Called("create_supervised")
    /\ AnyNaN(args.data)
    /\ args.n_seq >= 1
    /\ Len(ret.trainX) >= 1
    /\ Len(ret.testY) >= 1

\* The rows the overlapping test set shares with the training set.
OverlapRowsRepeat ==
    LET n == args.look_back + 1
    IN  /\ Len(ret.trainX) >= n /\ Len(ret.testX) >= n
        /\ Len(ret.trainY) >= n /\ Len(ret.testY) >= n
        /\ FirstRows(ret.testX, n) = LastRows(ret.trainX, n)
        /\ FirstRows(ret.testY, n) = LastRows(ret.trainY, n)

\* C2 as stated: with overlap=True, for every series, look_back and split
\* point, the first look_back+1 test rows are the last look_back+1 training
\* rows.
C2_Original ==
    (Called("create_supervised") /\ args.overlap) => OverlapRowsRepeat

\* C2 amended: the same, for a split point with look_back+1 <= split_point
\* <= number of aligned rows; the test set then starts at row
\* split_point - look_back - 1 of the aligned matrices.
C2_OverlapRowsRepeat ==
    LET X == AlignedX(args.data, args.kind, args.look_back, args.n_seq)
        Y == AlignedY(args.data, args.kind, args.look_back, args.n_seq)
        first == args.train_split - args.look_back - 1
    IN  (/\ Called("create_supervised") /\ args.overlap
         /\ args.look_back + 1 <= args.train_split
         /\ args.train_split <= Len(X))
        => /\ OverlapRowsRepeat
           /\ ret.testX = SubSeq(X, first + 1, Len(X))
           /\ ret.testY = SubSeq(Y, first + 1, Len(Y))

\* C2's case: an overlapping split inside the aligned rows of a series of
\* distinct values, with test rows beyond the shared ones.
C2_Witness ==
    /\ Called("create_supervised") /\ args.overlap
    /\ args.data = Ramp(MaxRamp)
    /\ args.look_back = 1 /\ args.n_seq = 1
    /\ args.train_split = 3
    /\ Len(ret.testX) > args.look_back + 1

C3_Call ==
    /\ Called("create_supervised")
    /\ args.kind = "Series"
    /\ args.data = <<1, 2, 3, 4, 5, 6>>
    /\ args.look_back = 1 /\ args.n_seq = 1
    /\ args.train_split = 3 /\ args.overlap

\* C3 as stated: the scenario returns two training rows.
C3_Original ==
    C3_Call =>
        ret = [trainX |-> << <<2, 1>>, <<3, 2>> >>,
               trainY |-> << <<3>>, <<4>> >>,
               testX |-> << <<3, 2>>, <<4, 3>>, <<5, 4>> >>,
               testY |-> << <<4>>, <<5>>, <<6>> >>]

\* C3 amended: create_supervised on [1,2,3,4,5,6], look_back=1, horizon=1,
\* split_point=3, overlap=True returns the three training rows
\* trainX=[[2,1],[3,2],[4,3]], trainY=[[3],[4],[5]], and the test rows
\* testX=[[3,2],[4,3],[5,4]], testY=[[4],[5],[6]].
C3_Scenario ==
    C3_Call =>
        ret = [trainX |-> << <<2, 1>>, <<3, 2>>, <<4, 3>> >>,
               trainY |-> << <<3>>, <<4>>, <<5>> >>,
               testX |-> << <<3, 2>>, <<4, 3>>, <<5, 4>> >>,
               testY |-> << <<4>>, <<5>>, <<6>> >>]

\* C3's case: the scenario's call has returned.
C3_Witness == C3_Call /\ Len(ret.trainX) = 3

\* C4: for a gap-free series S of N values and look_back L, horizon H with
\* L + H < N, the aligned matrices have N - L - H rows; row i (0-based,
\* t = i + L) of the lag matrix is [S[t], S[t-1], ..., S[t-L]] and row i of
\* the lead matrix is [S[t+1], ..., S[t+H]], without S[t].
C4_AlignedRows ==
    LET S == args.data
        L == args.look_back
        H == args.n_seq
        X == AlignedX(S, args.kind, L, H)
        Y == AlignedY(S, args.kind, L, H)
    IN  (Called("create_supervised") /\ ~AnyNaN(S) /\ L + H < Len(S))
        => /\ Len(X) = Len(S) - L - H
           /\ Len(Y) = Len(S) - L - H
           /\ \A i \in 0..(Len(S) - L - H - 1) :
                 /\ X[i + 1] = [c \in 1..(L + 1) |-> S[(i + L) - (c - 1) + 1]]
                 /\ Y[i + 1] = [c \in 1..H |-> S[(i + L) + c + 1]]

\* C4's case: distinct values, several lags and leads, several rows left.
C4_Witness ==
    /\ Called("create_supervised")
    /\ args.data = Ramp(MaxRamp)
    /\ args.look_back = 2 /\ args.n_seq = 2
    /\ Len(AlignedX(args.data, args.kind, 2, 2)) = MaxRamp - 4
    /\ ret.trainY # <<>>

CeilFreq24(freq) == 0 - ((0 - 24 * freq[1]) \div freq[2])

\* C6 as stated: the lags appended are exactly the k with |PACF[k]| >
\* threshold and k > starting_point, starting_point being
\* ceil(24*freq) - 1 + operational_lag in da_auction mode and operational_lag
\* otherwise; each gives a column `{column}_{k}`, the target shifted by k, and
\* the name list holds exactly these names.
C6_SelectedLags ==
    LET PACF == args.PACF
        start == IF args.da_auction
                 THEN CeilFreq24(args.freq) - 1 + args.operational_lag
                 ELSE args.operational_lag
        K == {k \in 0..(Len(PACF) - 1) :
                Abs(PACF[k + 1]) > args.thres /\ k > start}
    IN  Called("lagged_predictors_pd")
        => /\ {ret.name_list[j] : j \in 1..Len(ret.name_list)}
                = {(args.col_name \o "_") \o Str(k) : k \in K}
           /\ Len(ret.name_list) = Cardinality(K)
           /\ {ret.new_columns[j] : j \in 1..Len(ret.new_columns)}
                = {[name |-> (args.col_name \o "_") \o Str(k),
                    values |-> PdShift(args.col, k)] : k \in K}

\* C7 as stated: eval_point_pred and brier_score fail with a shape-mismatch
\* condition, and return no score, whenever the shape of the predictions
\* differs from the shape of the actuals.  (Either failure, the assertion or
\* numpy's broadcast error, is counted as that condition here.)
C7_ShapeMismatchFails ==
    (/\ pc = "returned" /\ fn \in {"eval_point_pred", "brier_score"}
     /\ args.predictions.shape # args.actual.shape)
    => ret.kind \in {"AssertionError", "ValueError"}

\* C8 as stated: for 1 <= step <= T, energy_score scores each of the
\* floor(T/step) blocks [k*step, (k+1)*step), k = 0 .. floor(T/step)-1, exactly
\* once, and returns the average of these scores.
C8_AllBlocksScored ==
    (/\ Called("energy_score")
     /\ 1 <= args.step /\ args.step <= args.n_target)
    => /\ ret.ES = [k \in 1..(args.n_target \div args.step) |->
                       <<(k - 1) * args.step, k * args.step>>]
       /\ ret.value = "mean(ES)"

\* The columns of row i of quant_pred that reach target[i]
Reaching(i) ==
    {j \in 1..Len(args.quant_pred[i]) : args.quant_pred[i][j] >= args.target[i]}

\* C9: for every observation i, pit_eval returns quantiles[j] for the
\* smallest column j with quant_pred[i,j] >= target[i], and 1.0 only when no
\* column of row i reaches target[i]; so if the last column reaches the target
\* of every observation, every value returned is one of the quantile levels.
C9_FirstReachedLevel ==
    Called("pit_eval") =>
        LET Q == Len(args.quantiles)
            n == Len(args.target)
        IN  /\ Len(ret) = n
            /\ \A i \in 1..n :
                  /\ Reaching(i) = {} => ret[i] = PitFallback
                  /\ Reaching(i) # {} =>
                        \E j \in Reaching(i) :
                            /\ \A k \in Reaching(i) : j <= k
                            /\ ret[i] = args.quantiles[j]
                  /\ ret[i] = PitFallback => Reaching(i) = {}
            /\ (\A i \in 1..n : args.quant_pred[i][Q] >= args.target[i])
               => \A i \in 1..n : ret[i] \in {args.quantiles[j] : j \in 1..Q}

\* C9's case: one observation first reached by the middle column (and not by
\* the last one), another reached by none.
C9_Witness ==
    /\ Called("pit_eval")
    /\ Len(args.quantiles) = 3 /\ Len(args.target) = 2
    /\ Reaching(1) = {2}
    /\ ret[1] = args.quantiles[2]
    /\ Reaching(2) = {}
    /\ ret[2] = PitFallback

RECURSIVE InsertSorted(_, _)
InsertSorted(x, sorted) ==
    IF sorted = <<>> THEN <<x>>
    ELSE IF RatLE(x, sorted[1]) THEN <<x>> \o sorted
    ELSE <<sorted[1]>> \o InsertSorted(x, Tail(sorted))

RECURSIVE Sorted(_)
Sorted(xs) ==
    IF xs = <<>> THEN <<>> ELSE InsertSorted(xs[1], Sorted(Tail(xs)))

\* The median: the middle value, or the mean of the two middle values
Median(xs) ==
    LET srt == Sorted(xs)
        n == Len(xs)
    IN  IF n % 2 = 1 THEN srt[(n + 1) \div 2]
        ELSE RatMul(RatAdd(srt[n \div 2], srt[(n \div 2) + 1]), Rat(1, 2))

RECURSIVE SumOver(_, _)
SumOver(xs, I) ==
    IF I = {} THEN Rat(0, 1)
    ELSE LET i == CHOOSE k \in I : TRUE
         IN  RatAdd(xs[i], SumOver(xs, I \ {i}))

\* C10 as stated: with no further argument, CVaR(data, quant=1.0) is exactly
\* mean(data) and VaR(data, quant=0.5) exactly the median of data.
C10_Original ==
    /\ (Called("CVaR") /\ args.quant = Rat(1, 1) /\ args.digits = <<DefaultDigits>>)
       => ret = RatMean(args.data)
    /\ (Called("VaR") /\ args.quant = Rat(1, 2) /\ args.digits = <<DefaultDigits>>)
       => ret = Median(args.data)

\* C10 amended: CVaR(data, quant=1.0) is mean(data) and VaR(data, quant=0.5)
\* the median of data, each rounded to `digits` decimals (3 with no further
\* argument) and exact with digits=None; in general CVaR is the average,
\* rounded the same way, of the sample values at or below the unrounded
\* quantile of level quant.
C10_RoundedMeanMedian ==
    /\ (Called("CVaR") /\ args.quant = Rat(1, 1))
       => ret = Rounded(RatMean(args.data), args.digits)
    /\ (Called("VaR") /\ args.quant = Rat(1, 2))
       => ret = Rounded(Median(args.data), args.digits)
    /\ Called("CVaR")
       => LET I == {i \in 1..Len(args.data) :
                      RatLE(args.data[i], Quantile(args.data, args.quant))}
          IN  /\ I # {}
              /\ ret = Rounded(RatMul(SumOver(args.data, I),
                                      Rat(1, Cardinality(I))),
                               args.digits)

\* C10's case: CVaR at level 1.0 with the default digits, of a sample whose
\* mean has more than three decimals.
C10_Witness ==
    /\ Called("CVaR")
    /\ args.quant = Rat(1, 1) /\ args.digits = <<DefaultDigits>>
    /\ Len(args.data) >= 2
    /\ ret # RatMean(args.data)
    /\ ret = Round(RatMean(args.data), DefaultDigits)

====
